---------------------------- MODULE Spec2Model ----------------------------
(* Model of src/moving_avg_api.py: moving_average_crossover_signal.        *)
(*                                                                         *)
(* The function is pure.  A state holds the arguments of one call, the     *)
(* position of the call (pc) and what the call ended in (result).          *)
(*                                                                         *)
(* A price is a record [type, val]: type "int" is a Python number, type    *)
(* "str" an element that fails isinstance(p, (int, float)).  The argument  *)
(* prices is a record [kind, items]: kind is "list", "tuple" or "other"    *)
(* (any object that is neither).                                           *)
(*                                                                         *)
(* Python divides the integer sums as floats.  A moving average is kept    *)
(* here as the exact fraction [num, den]; fractions are compared by cross  *)
(* multiplication.  For the integer prices of this model (below 2^53, and  *)
(* two different averages at least 1/(50*200) apart) the float comparison  *)
(* and the exact comparison agree.                                         *)
EXTENDS Integers, Sequences, FiniteSets, TLC

VARIABLES prices, short_window, long_window, min_valid_price,
          max_valid_price, pc, result

vars == <<prices, short_window, long_window, min_valid_price,
          max_valid_price, pc, result>>

args == <<prices, short_window, long_window, min_valid_price,
          max_valid_price>>

-----------------------------------------------------------------------------
(* Bounds of the explored inputs *)

MaxLen == 4

(* Program constants *)

DefaultMinValidPrice == 1000
DefaultMaxValidPrice == 200000
MinShortWindow == 1
MaxShortWindow == 50
MaxLongWindow == 200

-----------------------------------------------------------------------------
(* Python helpers *)

Min2(a, b) == IF a < b THEN a ELSE b
Max2(a, b) == IF a > b THEN a ELSE b

\* s[start:stop] of a Python sequence (0-based, negative indices count
\* from the end, out-of-range indices are clamped).
PySlice(s, start, stop) ==
    LET n  == Len(s)
        lo == IF start < 0 THEN Max2(start + n, 0) ELSE Min2(start, n)
        hi == IF stop < 0 THEN Max2(stop + n, 0) ELSE Min2(stop, n)
    IN  SubSeq(s, lo + 1, hi)

\* A plausible slip: the window is taken from the head of the series.
PySliceFrom_Head(s, start) ==
    PySlice(s, 0, IF start < 0 THEN -start ELSE start)

\* s[start:]
PySliceFrom(s, start) == PySlice(s, start, Len(s))

RECURSIVE SumRange(_, _, _)
\* xs[lo].val + ... + xs[hi].val, the range split in halves (integer
\* addition is associative, so the order of Python's left fold is kept
\* in value).
SumRange(xs, lo, hi) ==
    IF lo > hi THEN 0
    ELSE IF lo = hi THEN xs[lo].val
    ELSE LET mid == (lo + hi) \div 2
         IN  SumRange(xs, lo, mid) + SumRange(xs, mid + 1, hi)

\* sum(xs) of numeric elements
sum(xs) == SumRange(xs, 1, Len(xs))

\* isinstance(p, (int, float))
IsNumeric(p) == p.type = "int"

\* isinstance(prices, (list, tuple))
IsListOrTuple(ps) == ps.kind \in {"list", "tuple"}

\* all(isinstance(p, (int, float)) for p in prices)
AllNumeric(ps) == \A i \in 1..Len(ps.items) : IsNumeric(ps.items[i])

-----------------------------------------------------------------------------
(* What a call ends in.  line is the source line of the return or raise.  *)

Return(v, ln) == [exc |-> "none", value |-> v, msg |-> "", line |-> ln]

Raise(e, m, ln) == [exc |-> e, value |-> "", msg |-> m, line |-> ln]

NoResult == [exc |-> "none", value |-> "", msg |-> "", line |-> 0]

NotASequenceError ==
    Raise("ValueError",
          "Prices must be provided as a list or tuple of numbers.", 32)

NonNumericError ==
    Raise("ValueError",
          "All elements in prices must be numeric (int or float).", 34)

\* A plausible slip: the message of another check is pasted here.
InsufficientDataError_Pasted(lw) ==
    Raise("ValueError", "short_window must be between 1 and 50.", 36)

\* The f-string of line 36 carries long_window + 1.
InsufficientDataError(lw) ==
    Raise("ValueError",
          "Insufficient data: need at least " \o ToString(lw + 1)
              \o " price points.", 36)

ShortWindowError ==
    Raise("ValueError", "short_window must be between 1 and 50.", 39)

LongWindowError ==
    Raise("ValueError",
          "long_window must be greater than short_window and no more than 200.",
          41)

-----------------------------------------------------------------------------
(* The checks of lines 31-41 *)

\* A plausible slip: off by one, long_window points are accepted.
InsufficientData_OffByOne(ps, lw) == Len(ps.items) < lw

\* len(prices) < long_window + 1
InsufficientData(ps, lw) == Len(ps.items) < lw + 1

\* A plausible slip: the upper limit is exclusive.
ShortWindowOk_Exclusive(sw) == MinShortWindow <= sw /\ sw < MaxShortWindow

\* 1 <= short_window <= 50
ShortWindowOk(sw) == MinShortWindow <= sw /\ sw <= MaxShortWindow

\* A plausible slip: long_window may equal short_window.
LongWindowOk_NonStrict(sw, lw) == sw <= lw /\ lw <= MaxLongWindow

\* short_window < long_window <= 200
LongWindowOk(sw, lw) == sw < lw /\ lw <= MaxLongWindow

\* A plausible slip: the window checks come before the length check.
Validate_WindowsFirst(ps, sw, lw) ==
    IF ~IsListOrTuple(ps) THEN NotASequenceError
    ELSE IF ~AllNumeric(ps) THEN NonNumericError
    ELSE IF ~ShortWindowOk(sw) THEN ShortWindowError
    ELSE IF ~LongWindowOk(sw, lw) THEN LongWindowError
    ELSE IF InsufficientData(ps, lw) THEN InsufficientDataError(lw)
    ELSE NoResult

\* Lines 31-41: the first failing check raises; NoResult when all pass.
Validate(ps, sw, lw) ==
    IF ~IsListOrTuple(ps) THEN NotASequenceError
    ELSE IF ~AllNumeric(ps) THEN NonNumericError
    ELSE IF InsufficientData(ps, lw) THEN InsufficientDataError(lw)
    ELSE IF ~ShortWindowOk(sw) THEN ShortWindowError
    ELSE IF ~LongWindowOk(sw, lw) THEN LongWindowError
    ELSE NoResult

-----------------------------------------------------------------------------
(* The sanity gate of lines 44-47 *)

\* prices[-1]
latest_price(ps) == ps.items[Len(ps.items)].val

\* A plausible slip: the bounds are exclusive.
GateTriggers_Exclusive(latest, minp, maxp) ==
    latest <= minp \/ latest >= maxp

\* A plausible slip: only the upper bound is looked at.
GateTriggers_UpperOnly(latest, minp, maxp) == latest > maxp

\* latest_price < min_valid_price or latest_price > max_valid_price
GateTriggers(latest, minp, maxp) == latest < minp \/ latest > maxp

-----------------------------------------------------------------------------
(* The moving averages of lines 50-54, as exact fractions *)

Mean(xs, w) == [num |-> sum(xs), den |-> w]

\* a < b and a <= b for fractions with positive denominators
FracLess(a, b) == a.num * b.den < b.num * a.den
FracLeq(a, b) == a.num * b.den <= b.num * a.den

short_ma_current(ps, sw) == Mean(PySliceFrom(ps.items, -sw), sw)
short_ma_prev(ps, sw) == Mean(PySlice(ps.items, -sw - 1, -1), sw)
long_ma_current(ps, lw) == Mean(PySliceFrom(ps.items, -lw), lw)
long_ma_prev(ps, lw) == Mean(PySlice(ps.items, -lw - 1, -1), lw)

-----------------------------------------------------------------------------
(* The decision of lines 57-62 *)

\* A plausible slip: yesterday's relation is strict in the BUY branch.
Decide_StrictBuy(sp, lp, sc, lc) ==
    IF FracLess(sp, lp) /\ FracLess(lc, sc) THEN Return("BUY", 58)
    ELSE IF FracLeq(lp, sp) /\ FracLess(sc, lc) THEN Return("SELL", 60)
    ELSE Return("HOLD", 62)

\* A plausible slip: yesterday's relation is strict in the SELL branch.
Decide_StrictSell(sp, lp, sc, lc) ==
    IF FracLeq(sp, lp) /\ FracLess(lc, sc) THEN Return("BUY", 58)
    ELSE IF FracLess(lp, sp) /\ FracLess(sc, lc) THEN Return("SELL", 60)
    ELSE Return("HOLD", 62)

Decide(sp, lp, sc, lc) ==
    IF FracLeq(sp, lp) /\ FracLess(lc, sc) THEN Return("BUY", 58)
    ELSE IF FracLeq(lp, sp) /\ FracLess(sc, lc) THEN Return("SELL", 60)
    ELSE Return("HOLD", 62)

\* Lines 43-62, reached only when validation passed.  A division by a
\* zero window would raise ZeroDivisionError at the first division.
Compute(ps, sw, lw, minp, maxp) ==
    IF GateTriggers(latest_price(ps), minp, maxp) THEN Return("HOLD", 47)
    ELSE IF sw = 0 THEN Raise("ZeroDivisionError", "division by zero", 50)
    ELSE IF lw = 0 THEN Raise("ZeroDivisionError", "division by zero", 53)
    ELSE Decide(short_ma_prev(ps, sw), long_ma_prev(ps, lw),
                short_ma_current(ps, sw), long_ma_current(ps, lw))

\* prices[-1] of an empty sequence raises IndexError.
moving_average_crossover_signal(ps, sw, lw, minp, maxp) ==
    LET v == Validate(ps, sw, lw)
    IN  IF v # NoResult THEN v
        ELSE IF Len(ps.items) = 0
             THEN Raise("IndexError", "list index out of range", 44)
        ELSE Compute(ps, sw, lw, minp, maxp)

-----------------------------------------------------------------------------
(* The calls explored *)

Num(n) == [type |-> "int", val |-> n]
NonNumeric == [type |-> "str", val |-> 0]

BoundsPairs ==
    { <<DefaultMinValidPrice, DefaultMaxValidPrice>>, <<1, 2>> }

\* Prices around the two ends of the valid range.
PriceVals(b) == { b[1] - 1, b[1], b[2], b[2] + 1 }

SeqsUpTo(S, n) == UNION { [1..k -> S] : k \in 0..n }

Repeat(x, n) == [i \in 1..n |-> x]

Scenario1 == Repeat(Num(1), 9) \o <<Num(2)>>
Scenario2 == <<Num(2)>> \o Repeat(Num(1), 9)
Scenario2Mirror == Repeat(Num(2), 9) \o <<Num(1)>>

\* Short series of any content, windows around the series length.
InitShort ==
    \E b \in BoundsPairs :
    \E k \in {"list", "tuple"} :
    \E xs \in SeqsUpTo({Num(v) : v \in PriceVals(b)} \cup {NonNumeric}, MaxLen) :
        /\ prices = [kind |-> k, items |-> xs]
        /\ short_window \in 0..(MaxLen - 1)
        /\ long_window \in -1..MaxLen
        /\ min_valid_price = b[1]
        /\ max_valid_price = b[2]

\* Series long enough for the largest windows: a flat run of the lower
\* bound followed by a short free tail.
InitLong ==
    \E b \in BoundsPairs :
    \E pad \in {MaxShortWindow, MaxLongWindow - 1} :
    \E xs \in SeqsUpTo({Num(v) : v \in PriceVals(b)}, 3) :
        /\ prices = [kind |-> "list", items |-> Repeat(Num(b[1]), pad) \o xs]
        /\ short_window \in {1, MaxShortWindow, MaxShortWindow + 1}
        /\ long_window \in {MaxShortWindow + 1, MaxShortWindow + 2,
                            MaxLongWindow, MaxLongWindow + 1}
        /\ min_valid_price = b[1]
        /\ max_valid_price = b[2]

\* The ten-point series of the documented scenarios.
InitScenario ==
    \E b \in BoundsPairs :
        /\ prices \in { [kind |-> "list", items |-> xs] :
                          xs \in {Scenario1, Scenario2, Scenario2Mirror} }
        /\ short_window = 1
        /\ long_window = 3
        /\ min_valid_price = b[1]
        /\ max_valid_price = b[2]

\* An argument that is neither a list nor a tuple.
InitOther ==
    \E b \in BoundsPairs :
        /\ prices = [kind |-> "other", items |-> <<>>]
        /\ short_window \in 0..(MaxLen - 1)
        /\ long_window \in -1..MaxLen
        /\ min_valid_price = b[1]
        /\ max_valid_price = b[2]

Init ==
    /\ InitShort \/ InitLong \/ InitScenario \/ InitOther
    /\ pc = "call"
    /\ result = NoResult

\* One call of the function with the arguments of the state.
Call ==
    /\ pc = "call"
    /\ result' = moving_average_crossover_signal(prices, short_window,
                     long_window, min_valid_price, max_valid_price)
    /\ pc' = "done"
    /\ UNCHANGED args

Next == Call

Spec == Init /\ [][Next]_vars

-----------------------------------------------------------------------------
(* Vocabulary of the properties, stated on the arguments and the result   *)

Done == pc = "done"

\* The call got past the checks of lines 31-41.
PassedValidation == Done /\ result.line \notin {32, 34, 36, 39, 41}

\* The three failure categories, by the raise statement that ended the call.
Category(r) ==
    IF r.line \in {32, 34} THEN "InvalidInput"
    ELSE IF r.line = 36 THEN "InsufficientData"
    ELSE IF r.line \in {39, 41} THEN "InvalidParameter"
    ELSE "none"

NumPrices == Len(prices.items)
LastPrice == prices.items[NumPrices].val

NumericSeries ==
    /\ prices.kind \in {"list", "tuple"}
    /\ \A i \in 1..NumPrices : prices.items[i].type = "int"

\* Sum of the w prices that end at position e (1-based).
WindowTotal(e, w) == SumRange(prices.items, e - w + 1, e)

ShortCurTotal == WindowTotal(NumPrices, short_window)
ShortPrevTotal == WindowTotal(NumPrices - 1, short_window)
LongCurTotal == WindowTotal(NumPrices, long_window)
LongPrevTotal == WindowTotal(NumPrices - 1, long_window)

\* Relations between the arithmetic means, cleared of denominators.
PrevLeq == ShortPrevTotal * long_window <= LongPrevTotal * short_window
PrevGeq == ShortPrevTotal * long_window >= LongPrevTotal * short_window
PrevEq == PrevLeq /\ PrevGeq
CurAbove == ShortCurTotal * long_window > LongCurTotal * short_window
CurBelow == ShortCurTotal * long_window < LongCurTotal * short_window

UpCross == PrevLeq /\ CurAbove
DownCross == PrevGeq /\ CurBelow

RuleSignal == IF UpCross THEN "BUY" ELSE IF DownCross THEN "SELL" ELSE "HOLD"

InRange == min_valid_price <= LastPrice /\ LastPrice <= max_valid_price
OutOfRange == LastPrice < min_valid_price \/ LastPrice > max_valid_price

BadInput == ~NumericSeries
BadLength == NumPrices < long_window + 1
BadShort == ~(1 <= short_window /\ short_window <= 50)
BadLong == ~(short_window < long_window /\ long_window <= 200)

\* Line of the raise statement of the first failing check, 0 when none fails.
FirstFailingLine ==
    IF prices.kind \notin {"list", "tuple"} THEN 32
    ELSE IF BadInput THEN 34
    ELSE IF BadLength THEN 36
    ELSE IF BadShort THEN 39
    ELSE IF BadLong THEN 41
    ELSE 0

FirstFailingCategory ==
    IF BadInput THEN "InvalidInput"
    ELSE IF BadLength THEN "InsufficientData"
    ELSE IF BadShort \/ BadLong THEN "InvalidParameter"
    ELSE "none"

IsScenario(xs, sw, lw) ==
    /\ Done
    /\ prices.kind = "list"
    /\ prices.items = xs
    /\ short_window = sw
    /\ long_window = lw

DefaultBounds ==
    /\ min_valid_price = DefaultMinValidPrice
    /\ max_valid_price = DefaultMaxValidPrice

\* One failing call per category, to compare the call of the state with.
ProbeResults ==
    { moving_average_crossover_signal(
          [kind |-> "list", items |-> <<NonNumeric, Num(1), Num(1)>>],
          1, 2, min_valid_price, max_valid_price),
      moving_average_crossover_signal(
          [kind |-> "list", items |-> <<Num(1)>>],
          1, 2, min_valid_price, max_valid_price),
      moving_average_crossover_signal(
          [kind |-> "list", items |-> <<Num(1), Num(1), Num(1)>>],
          0, 2, min_valid_price, max_valid_price) }

MirrorPrices ==
    [kind |-> prices.kind,
     items |-> [i \in 1..NumPrices |->
                  Num(min_valid_price + max_valid_price - prices.items[i].val)]]

Swap(v) == IF v = "BUY" THEN "SELL" ELSE IF v = "SELL" THEN "BUY" ELSE v

-----------------------------------------------------------------------------
(* Properties *)

\* C1: a validated call whose last price is within the valid range returns
\* BUY exactly on an upward cross (short_prev <= long_prev and
\* short_current > long_current), SELL exactly on a downward cross
\* (short_prev >= long_prev and short_current < long_current), and HOLD
\* otherwise, in particular when short_current = long_current.
C1_CrossoverRule ==
    (PassedValidation /\ InRange) =>
        /\ result.exc = "none"
        /\ (result.value = "BUY") <=> UpCross
        /\ (result.value = "SELL") <=> DownCross
        /\ (result.value = "HOLD") <=> (~UpCross /\ ~DownCross)
        /\ (~CurAbove /\ ~CurBelow) => result.value = "HOLD"

\* C1 witness: a BUY returned at line 58 with yesterday's averages equal.
C1_Witness ==
    PassedValidation /\ InRange /\ PrevEq /\ CurAbove /\ result.value = "BUY"

\* C2: for a validated call the gate returns HOLD (line 47) if and only if
\* the last price is strictly below min_valid_price or strictly above
\* max_valid_price, whatever the averages say; at exactly min_valid_price
\* or max_valid_price the result is that of the crossover rule.
C2_SanityGate ==
    PassedValidation =>
        /\ (result.line = 47) <=> OutOfRange
        /\ OutOfRange => (result.exc = "none" /\ result.value = "HOLD")
        /\ LastPrice \in {min_valid_price, max_valid_price} =>
               (result.line # 47 /\ result.value = RuleSignal)

\* C2 witness: the gate holds a call whose averages cross upwards.
C2_Witness ==
    /\ PassedValidation /\ OutOfRange /\ UpCross
    /\ result.line = 47 /\ result.value = "HOLD"

\* C3: the error raised is that of the first failing check in the order
\* numeric sequence, length, short_window, long_window; every call that
\* fails a check ends in an error, never in HOLD, also when its last price
\* is outside the valid range.
C3_ValidationOrder ==
    Done =>
        /\ FirstFailingLine # 0 =>
               /\ result.exc # "none"
               /\ result.line = FirstFailingLine
               /\ Category(result) = FirstFailingCategory
        /\ FirstFailingLine = 0 => Category(result) = "none"

\* C3 witness: too few prices, short_window out of range and long_window
\* out of range at once, the last price below the valid range.
C3_Witness ==
    /\ Done /\ NumericSeries /\ NumPrices > 0
    /\ BadLength /\ BadShort /\ BadLong /\ OutOfRange
    /\ result.line = 36

\* C4: an all-numeric series ends in the insufficient-data error exactly
\* when len(prices) < long_window + 1: a series of long_window prices
\* raises it, a series of long_window + 1 prices does not.
C4_InsufficientData ==
    (Done /\ NumericSeries) =>
        /\ (Category(result) = "InsufficientData") <=>
               (NumPrices < long_window + 1)
        /\ NumPrices = long_window => result.exc = "ValueError"

\* C4 witness: exactly one price short.
C4_Witness ==
    /\ Done /\ NumericSeries /\ NumPrices > 0 /\ NumPrices = long_window
    /\ result.line = 36

\* C5: an all-numeric series of at least long_window + 1 prices ends in
\* the invalid-parameter error if and only if 1 <= short_window <= 50 or
\* short_window < long_window <= 200 is violated.
C5_InvalidParameter ==
    (Done /\ NumericSeries /\ NumPrices >= long_window + 1) =>
        /\ (Category(result) = "InvalidParameter") <=> (BadShort \/ BadLong)
        /\ (BadShort \/ BadLong) => result.exc = "ValueError"

\* C5 witness: short_window = 51 with a larger long_window and enough data.
C5_Witness ==
    /\ Done /\ NumericSeries /\ NumPrices >= long_window + 1
    /\ short_window = 51 /\ long_window > short_window
    /\ result.line = 39

\* C6 as stated: scenario 1 with the default bounds returns BUY.
C6_Scenario1ReturnsBuy ==
    (IsScenario(Scenario1, 1, 3) /\ DefaultBounds) => result.value = "BUY"

\* C6 amended: scenario 1 with the default bounds returns HOLD through the
\* sanity gate (the last price 2 is below 1000); it returns BUY when the
\* bounds passed admit the last price.
C6_Scenario1 ==
    /\ (IsScenario(Scenario1, 1, 3) /\ DefaultBounds) =>
           (result.value = "HOLD" /\ result.line = 47)
    /\ (IsScenario(Scenario1, 1, 3) /\ InRange) => result.value = "BUY"

\* C6 witness: scenario 1 called with the default bounds.
C6_Witness == IsScenario(Scenario1, 1, 3) /\ DefaultBounds

\* C7 as stated: scenario 2 returns SELL.
C7_Scenario2ReturnsSell ==
    IsScenario(Scenario2, 1, 3) => result.value = "SELL"

\* C7 amended: scenario 2 returns HOLD: through the sanity gate with the
\* default bounds, and through the last branch of the rule (all four
\* averages are 1) when the bounds admit the last price.
C7_Scenario2 ==
    IsScenario(Scenario2, 1, 3) =>
        /\ result.value = "HOLD"
        /\ DefaultBounds => result.line = 47
        /\ InRange => result.line = 62

\* C7 witness: scenario 2 decided by the averages.
C7_Witness == IsScenario(Scenario2, 1, 3) /\ InRange /\ result.line = 62

\* C8 as stated: calls that fail in different categories end in different
\* error kinds.
C8_DistinctErrorKinds ==
    (Done /\ Category(result) # "none") =>
        \A p \in ProbeResults :
            Category(p) # Category(result) => p.exc # result.exc

\* C8 amended: every validation failure is a ValueError; calls that fail
\* in different categories differ in the message only.
C8_DistinctMessages ==
    (Done /\ Category(result) # "none") =>
        /\ result.exc = "ValueError"
        /\ \A p \in ProbeResults :
               Category(p) # Category(result) =>
                   (p.exc = result.exc /\ p.msg # result.msg)

\* C8 witness: a call that fails for insufficient data.
C8_Witness ==
    /\ Done /\ Category(result) = "InsufficientData"
    /\ \E p \in ProbeResults : Category(p) = "InvalidParameter"
    /\ \E p \in ProbeResults : Category(p) = "InvalidInput"

\* C9: a call that gets past validation has 1 <= short_window <
\* long_window <= 200 and len(prices) >= long_window + 1 >= 3; its last
\* price exists, each of the four slices has exactly short_window resp.
\* long_window elements, and no division is by zero.
C9_FullWindows ==
    PassedValidation =>
        /\ 1 <= short_window /\ short_window < long_window
        /\ long_window <= 200
        /\ NumPrices >= long_window + 1 /\ long_window + 1 >= 3
        /\ result.exc = "none"
        /\ Len(PySliceFrom(prices.items, -short_window)) = short_window
        /\ Len(PySlice(prices.items, -short_window - 1, -1)) = short_window
        /\ Len(PySliceFrom(prices.items, -long_window)) = long_window
        /\ Len(PySlice(prices.items, -long_window - 1, -1)) = long_window

\* C9 witness: a call decided by the averages on the shortest series its
\* long window allows.
C9_Witness ==
    /\ PassedValidation /\ NumPrices = long_window + 1
    /\ result.line \in {58, 60, 62}

=============================================================================
